---- MODULE Spec2Model ----
(***************************************************************************)
(* Model of the rubric evaluator of src/evaluate_agent.py                  *)
(* (class DataAnalystEvaluator) and of the endpoint it evaluates,          *)
(* src/main.py (class DataAnalystAgent).                                   *)
(*                                                                         *)
(* JSON values are records [type, num, toks]:                              *)
(*   type  "null" | "bool" | "int" | "float" | "str" | "list" | "dict"     *)
(*   num   bool: 0/1, int: the integer, float: the value in units of 1e-6, *)
(*         list/dict: the number of elements, otherwise 0                  *)
(*   toks  str: the text as a sequence of tokens (fixed pieces of text);   *)
(*         list/dict: the text of the elements as repr() prints them       *)
(* The decoded top-level body carries one more field, elems, the elements  *)
(* of a top-level array.                                                   *)
(***************************************************************************)
EXTENDS Integers, Sequences, FiniteSets, TLC

VARIABLES
    agent,        \* the endpoint's request: task text, routine chosen, answer
    served,       \* what the endpoint answers to the next request
    total_score,  \* self.total_score
    max_score,    \* self.max_score
    pc,           \* where run_evaluation stands
    result,       \* run_evaluation's local: the fetched submission
    report,       \* the dict run_evaluation returned
    stdout,       \* the diagnostic lines printed by the fetch, the gate and the band
    checks,       \* per content check of this run: what it did (see NoChecks)
    entry_score,  \* total_score when run_evaluation was entered
    runs,         \* run_evaluation calls made on this evaluator object
    last          \* the previous run: its submission, report and printed lines

vars == <<agent, served, total_score, max_score, pc, result, report, stdout,
          checks, entry_score, runs, last>>

(***************************************************************************)
(* Bounds                                                                  *)
(***************************************************************************)
\* number of run_evaluation calls made on one evaluator object
MaxRuns == 2

(***************************************************************************)
(* Text: tokens and what Python's str methods see of them                  *)
(***************************************************************************)
\* "A*99976" stands for 99976 letters A, "A*99980" for 99980 of them,
\* "U+D800" for a lone surrogate (JSON "\ud800")
Tokens ==
    {"data:image/", "png;", "base64,", "QUJD", "QQ", "=", "!", "e-acute",
     "U+D800", "A*99976", "A*99980", "A*100004", "not-a-data-uri", "webp;",
     "Analysis completed", "Generic result", "0.5", "The ", "Titanic", "TITANIC",
     " Story", "Unknown", "0.4855", "0.4858", "abc", "1", "7", "0.9", "1.0",
     "None", "True", "False", "[", "]", "{", "}"}

\* len(tok.encode('utf-8')); the lone surrogate cannot be encoded (see CanEncode)
TokBytes(t) ==
    CASE t = "data:image/" -> 11
      [] t = "png;" -> 4
      [] t = "base64," -> 7
      [] t = "QUJD" -> 4
      [] t = "QQ" -> 2
      [] t = "e-acute" -> 2
      [] t = "U+D800" -> 0
      [] t = "A*99976" -> 99976
      [] t = "A*99980" -> 99980
      [] t = "A*100004" -> 100004
      [] t \in {"not-a-data-uri", "Generic result"} -> 14
      [] t = "Analysis completed" -> 18
      [] t = "webp;" -> 5
      [] t \in {"The ", "None", "True"} -> 4
      [] t \in {"Titanic", "TITANIC", "Unknown"} -> 7
      [] t \in {" Story", "0.4855", "0.4858"} -> 6
      [] t \in {"abc", "0.9", "1.0", "0.5"} -> 3
      [] t = "False" -> 5
      [] OTHER -> 1

\* number of characters of the base64 alphabet (A-Z a-z 0-9 + /) in the token
TokData(t) ==
    CASE t = "data:image/" -> 10
      [] t = "png;" -> 3
      [] t = "base64," -> 6
      [] t = "QUJD" -> 4
      [] t = "QQ" -> 2
      [] t = "A*99976" -> 99976
      [] t = "A*99980" -> 99980
      [] t = "A*100004" -> 100004
      [] t = "not-a-data-uri" -> 11
      [] t = "Analysis completed" -> 17
      [] t = "Generic result" -> 13
      [] t = "webp;" -> 4
      [] t \in {"The ", "abc"} -> 3
      [] t \in {"Titanic", "TITANIC", "Unknown"} -> 7
      [] t \in {" Story", "0.4855", "0.4858", "False"} -> 5
      [] t \in {"None", "True"} -> 4
      [] t \in {"0.9", "1.0", "0.5"} -> 2
      [] t \in {"1", "7"} -> 1
      [] OTHER -> 0

\* str.lower() of a token, as far as the search for "titanic" can tell
Lower(t) == IF t \in {"Titanic", "TITANIC"} THEN "titanic" ELSE t

\* mutant: the search without re.I
SearchTitanic_CaseSensitive(toks) == \E i \in 1..Len(toks) : toks[i] = "titanic"

\* re.search(r'titanic', s, re.I)
SearchTitanic(toks) == \E i \in 1..Len(toks) : Lower(toks[i]) = "titanic"

\* mutant: 'data' in s instead of s.startswith('data:image/')
StartsWithDataImage_ContainsData(toks) ==
    \E i \in 1..Len(toks) : toks[i] \in {"data:image/", "not-a-data-uri"}

\* s.startswith('data:image/')
StartsWithDataImage(toks) == Len(toks) > 0 /\ toks[1] = "data:image/"

\* 'base64,' in s
HasMarker(toks) == \E i \in 1..Len(toks) : toks[i] = "base64,"

\* s.encode('utf-8') raises UnicodeEncodeError on a lone surrogate
CanEncode(toks) == \A i \in 1..Len(toks) : toks[i] # "U+D800"

RECURSIVE ByteLen(_)
\* len(s.encode('utf-8'))
ByteLen(toks) ==
    IF toks = <<>> THEN 0 ELSE TokBytes(Head(toks)) + ByteLen(Tail(toks))

\* index of the first marker at or after position i, Len(toks)+1 when none
RECURSIVE NextMarker(_, _)
NextMarker(toks, i) ==
    IF i > Len(toks) THEN Len(toks) + 1
    ELSE IF toks[i] = "base64," THEN i ELSE NextMarker(toks, i + 1)

\* s.split('base64,')[1]: the text between the first marker and the second
\* (or the end); only used when the marker is present
SplitPart1(toks) ==
    LET a == NextMarker(toks, 1)
        b == NextMarker(toks, a + 1)
    IN  SubSeq(toks, a + 1, b - 1)

\* binascii.a2b_base64 in its default non-strict mode, one token at a time:
\* st = [quad |-> position in the current group of four, pads, done]
B64Step(st, t) ==
    IF st.done THEN st
    ELSE IF t = "=" THEN
        IF st.quad >= 2 /\ st.quad + st.pads + 1 >= 4
        THEN [quad |-> 0, pads |-> 0, done |-> TRUE]
        ELSE [st EXCEPT !.pads = IF st.quad >= 2 THEN st.pads + 1 ELSE st.pads]
    ELSE IF TokData(t) = 0 THEN st
    ELSE [quad |-> (st.quad + TokData(t)) % 4, pads |-> 0, done |-> FALSE]

RECURSIVE B64Run(_, _)
B64Run(st, toks) ==
    IF toks = <<>> THEN st ELSE B64Run(B64Step(st, Head(toks)), Tail(toks))

\* base64.b64decode(s) returns (TRUE) or raises (FALSE): a str argument must be
\* ASCII, and the data characters must fill whole groups or be padded
B64Decodes(toks) ==
    /\ \A i \in 1..Len(toks) : toks[i] \notin {"e-acute", "U+D800"}
    /\ LET st == B64Run([quad |-> 0, pads |-> 0, done |-> FALSE], toks)
       IN  st.done \/ st.quad = 0

(***************************************************************************)
(* JSON values                                                             *)
(***************************************************************************)
JNull == [type |-> "null", num |-> 0, toks |-> <<>>]
JBool(b) == [type |-> "bool", num |-> IF b THEN 1 ELSE 0, toks |-> <<>>]
\* a number carries the text repr() prints for it
JInt(n, text) == [type |-> "int", num |-> n, toks |-> <<text>>]
JFloat(micro, text) == [type |-> "float", num |-> micro, toks |-> <<text>>]
JStr(toks) == [type |-> "str", num |-> 0, toks |-> toks]
JList(n, inner) == [type |-> "list", num |-> n, toks |-> inner]
JDict(n, inner) == [type |-> "dict", num |-> n, toks |-> inner]

\* a decoded top-level body: a JSON array with its elements, or another value
TopList(es) == [type |-> "list", num |-> Len(es), toks |-> <<>>, elems |-> es]
TopValue(v) == [type |-> v.type, num |-> v.num, toks |-> v.toks, elems |-> <<>>]

\* Python's None: the decoded JSON null, and what test_api_response returns on failure
NoneVal == TopValue(JNull)

\* mutant: the first answer is compared with a tolerance, like the third
PyEq1_Near(v) ==
    \/ v.type \in {"int", "bool"} /\ v.num = 1
    \/ v.type = "float" /\ v.num > 999000 /\ v.num < 1001000

\* first_answer == 1: Python compares numbers by value, and True == 1
PyEq1(v) ==
    \/ v.type \in {"int", "bool"} /\ v.num = 1
    \/ v.type = "float" /\ v.num = 1000000

\* str(v)
PyStr(v) ==
    CASE v.type = "str" -> v.toks
      [] v.type = "null" -> <<"None">>
      [] v.type = "bool" -> IF v.num = 1 THEN <<"True">> ELSE <<"False">>
      [] v.type \in {"int", "float"} -> v.toks
      [] v.type = "list" -> <<"[">> \o v.toks \o <<"]">>
      [] v.type = "dict" -> <<"{">> \o v.toks \o <<"}">>

\* the number a numeric text stands for, in units of 1e-6; -1 for other text
NumText(t) ==
    CASE t = "0.4855" -> 485500
      [] t = "0.4858" -> 485800
      [] t = "0.9" -> 900000
      [] t \in {"1", "1.0"} -> 1000000
      [] t = "7" -> 7000000
      [] OTHER -> -1

\* float(v): [exc, val] with val in units of 1e-6
PyFloat(v) ==
    CASE v.type = "float" -> [exc |-> "none", val |-> v.num]
      [] v.type \in {"int", "bool"} -> [exc |-> "none", val |-> v.num * 1000000]
      [] v.type = "str" ->
            IF Len(v.toks) = 1 /\ NumText(v.toks[1]) >= 0
            THEN [exc |-> "none", val |-> NumText(v.toks[1])]
            ELSE [exc |-> "ValueError", val |-> 0]
      [] OTHER -> [exc |-> "TypeError", val |-> 0]

Abs(x) == IF x < 0 THEN -x ELSE x

\* expected = 0.485782 and tolerance = 0.001, in units of 1e-6
expected == 485782
tolerance == 1000

\* abs(third_answer - expected) <= tolerance in IEEE doubles: at the exact
\* distance 0.001 (0.484782 and 0.486782) the computed difference is
\* 0.0010000000000000009, which is above the double 0.001
WithinTolerance(x) ==
    LET d == Abs(x - expected)
        roundsAbove == x \in {expected - tolerance, expected + tolerance}
    IN  d < tolerance \/ (d = tolerance /\ ~roundsAbove)

(***************************************************************************)
(* The checks.  A check body yields an outcome                             *)
(*   [pts    points added to total_score,                                  *)
(*    ret    the value returned,                                           *)
(*    exc    the exception leaving the body ("none" when none),            *)
(*    caught the exception its handler caught ("none" when none),          *)
(*    crit   the four plot sub-criteria (all FALSE for the other checks)]  *)
(***************************************************************************)
NoCrit == [is_data_uri |-> FALSE, has_base64 |-> FALSE, size_ok |-> FALSE,
           can_decode |-> FALSE]

Outcome(pts, ret) ==
    [pts |-> pts, ret |-> ret, exc |-> "none", caught |-> "none", crit |-> NoCrit]

Raise(e) ==
    [pts |-> 0, ret |-> FALSE, exc |-> e, caught |-> "none", crit |-> NoCrit]

\* mutant: no handler, the exception leaves the check
ExceptException_Reraise(o) == o

\* "except Exception as e: print(...); return False"
ExceptException(o) ==
    IF o.exc = "none" THEN o
    ELSE [pts |-> 0, ret |-> FALSE, exc |-> "none", caught |-> o.exc,
          crit |-> NoCrit]

\* mutant: the length test accepts every array of at least 4 elements
evaluate_structure_AtLeast4(r) ==
    IF r.type # "list" THEN [passed |-> FALSE, msg |-> "Response is not an array", n |-> 0]
    ELSE IF Len(r.elems) < 4
    THEN [passed |-> FALSE, msg |-> "Array has N elements, expected 4", n |-> Len(r.elems)]
    ELSE [passed |-> TRUE, msg |-> "Response is a 4-element array", n |-> 4]

evaluate_structure(r) ==
    IF r.type # "list" THEN [passed |-> FALSE, msg |-> "Response is not an array", n |-> 0]
    ELSE IF Len(r.elems) # 4
    THEN [passed |-> FALSE, msg |-> "Array has N elements, expected 4", n |-> Len(r.elems)]
    ELSE [passed |-> TRUE, msg |-> "Response is a 4-element array", n |-> 4]

evaluate_first_answer(r) ==
    ExceptException(IF PyEq1(r.elems[1]) THEN Outcome(4, TRUE) ELSE Outcome(0, FALSE))

evaluate_second_answer(r) ==
    ExceptException(
        IF SearchTitanic(PyStr(r.elems[2])) THEN Outcome(4, TRUE) ELSE Outcome(0, FALSE))

evaluate_third_answer(r) ==
    ExceptException(
        LET f == PyFloat(r.elems[3])
        IN  IF f.exc # "none" THEN Raise(f.exc)
            ELSE IF WithinTolerance(f.val) THEN Outcome(4, TRUE)
            ELSE Outcome(0, FALSE))

size_limit == 100000
points_per_criterion == 2

\* mutant: the size test accepts exactly 100,000 bytes
SizeOk_AtMost(toks) == ByteLen(toks) <= size_limit

\* size_bytes = len(plot_uri.encode('utf-8')); size_ok = size_bytes < 100000
SizeOk(toks) == ByteLen(toks) < size_limit

\* mutant: the text after the last marker is decoded, marker or not
CanDecode_WithoutMarker(toks) ==
    B64Decodes(IF HasMarker(toks) THEN SplitPart1(toks) ELSE toks)

\* the inner try of evaluate_plot: the marker is present and the text after it decodes
CanDecode(toks) == HasMarker(toks) /\ B64Decodes(SplitPart1(toks))

\* mutant: the decode criterion is left out of the sum
CountTrue_WithoutDecode(c) ==
    (IF c.is_data_uri THEN 1 ELSE 0) + (IF c.has_base64 THEN 1 ELSE 0)
    + (IF c.size_ok THEN 1 ELSE 0)

\* sum(criteria_met)
CountTrue(c) ==
    (IF c.is_data_uri THEN 1 ELSE 0) + (IF c.has_base64 THEN 1 ELSE 0)
    + (IF c.size_ok THEN 1 ELSE 0) + (IF c.can_decode THEN 1 ELSE 0)

PlotBody(r) ==
    LET v == r.elems[4]
    IN  IF v.type # "str" THEN Raise("AttributeError")
        ELSE IF ~CanEncode(v.toks) THEN Raise("UnicodeEncodeError")
        ELSE LET c == [is_data_uri |-> StartsWithDataImage(v.toks),
                       has_base64 |-> HasMarker(v.toks),
                       size_ok |-> SizeOk(v.toks),
                       can_decode |-> CanDecode(v.toks)]
             IN  [pts |-> CountTrue(c) * points_per_criterion,
                  ret |-> c.is_data_uri /\ c.has_base64 /\ c.size_ok /\ c.can_decode,
                  exc |-> "none", caught |-> "none", crit |-> c]

evaluate_plot(r) == ExceptException(PlotBody(r))

(***************************************************************************)
(* The fetch                                                               *)
(***************************************************************************)
\* what the endpoint answers: kind "neterr" (requests.post raises: connection
\* error or timeout), "status" (an HTTP status other than 200), "badjson"
\* (status 200, response.json() raises), "ok" (status 200, body decodes)
Response(kind, body) == [kind |-> kind, body |-> body]

Line(msg, n) == [msg |-> msg, n |-> n]

\* mutant: the status code is not tested, any decodable body is returned
test_api_response_IgnoreStatus(resp) ==
    CASE resp.kind \in {"ok", "status"} ->
            [ret |-> resp.body, line |-> Line("API response received successfully", 0)]
      [] resp.kind = "badjson" ->
            [ret |-> NoneVal, line |-> Line("Request failed: JSONDecodeError", 0)]
      [] OTHER ->
            [ret |-> NoneVal, line |-> Line("Request failed: ConnectionError", 0)]

\* test_api_response: the value returned and the diagnostic printed
test_api_response(resp) ==
    CASE resp.kind = "ok" ->
            [ret |-> resp.body, line |-> Line("API response received successfully", 0)]
      [] resp.kind = "status" ->
            [ret |-> NoneVal, line |-> Line("API error: status", 500)]
      [] resp.kind = "badjson" ->
            [ret |-> NoneVal, line |-> Line("Request failed: JSONDecodeError", 0)]
      [] OTHER ->
            [ret |-> NoneVal, line |-> Line("Request failed: ConnectionError", 0)]

(***************************************************************************)
(* The report                                                              *)
(***************************************************************************)
\* (total_score / max_score) * 100 in IEEE doubles, as [whole, ulps]: the
\* exact value and the sign of the rounding error of the computed double
\* (110.00000000000001 for 22, 220.00000000000003 for 44,
\* 229.99999999999997 for 46; exact for the other even totals up to 80)
Percentage(total, max) ==
    [whole |-> (total * 100) \div max,
     ulps |-> CASE total \in {22, 44} -> 1
                [] total = 46 -> -1
                [] OTHER -> 0]

\* the literal 0 of the two failure reports
ZeroPercent == [whole |-> 0, ulps |-> 0]

\* mutant: the bands are entered strictly above their thresholds
PctAtLeast_Strict(p, k) == p.whole > k \/ (p.whole = k /\ p.ulps > 0)

\* percentage >= k
PctAtLeast(p, k) == p.whole > k \/ (p.whole = k /\ p.ulps >= 0)

\* the band line printed from the percentage
Band(p) ==
    IF PctAtLeast(p, 90) THEN "EXCELLENT"
    ELSE IF PctAtLeast(p, 70) THEN "GOOD"
    ELSE IF PctAtLeast(p, 50) THEN "FAIR"
    ELSE "NEEDS WORK"

\* no report: run_evaluation has not returned
NoReport ==
    [success |-> FALSE, score |-> 0, max_score |-> 0, percentage |-> ZeroPercent,
     details |-> "", has_response |-> FALSE, response |-> NoneVal]

ApiFailedReport(max) ==
    [success |-> FALSE, score |-> 0, max_score |-> max, percentage |-> ZeroPercent,
     details |-> "API request failed", has_response |-> FALSE, response |-> NoneVal]

\* mutant: the gate's failure report copies the fetch's details
StructureFailedReport_SameDetails(max) == ApiFailedReport(max)

StructureFailedReport(max) ==
    [success |-> FALSE, score |-> 0, max_score |-> max, percentage |-> ZeroPercent,
     details |-> "Failed structural validation - not a 4-element array",
     has_response |-> FALSE, response |-> NoneVal]

CompletedReport(total, max, r) ==
    [success |-> TRUE, score |-> total, max_score |-> max,
     percentage |-> Percentage(total, max),
     details |-> "Evaluation completed successfully",
     has_response |-> TRUE, response |-> r]

\* a content check that has not run; once it has: done, pts the amount it
\* added to total_score, ret its return value, caught the exception its
\* handler caught, crit the plot sub-criteria it printed
NotRun == [done |-> FALSE, pts |-> 0, ret |-> FALSE, caught |-> "none",
           crit |-> NoCrit]
NoChecks == [first |-> NotRun, second |-> NotRun, third |-> NotRun, plot |-> NotRun]
NoLast == [result |-> NoneVal, report |-> NoReport, stdout |-> <<>>]

(***************************************************************************)
(* Submissions the endpoint may serve                                      *)
(***************************************************************************)
ValidPlot == JStr(<<"data:image/", "png;", "base64,", "QUJD">>)
NotADataUri == JStr(<<"not-a-data-uri">>)
TitanicStory == JStr(<<"The ", "Titanic", " Story">>)

\* [1, "The Titanic Story", 0.4855, "data:image/png;base64,QUJD"]
PerfectSubmission ==
    TopList(<<JInt(1, "1"), TitanicStory, JFloat(485500, "0.4855"), ValidPlot>>)

\* [2, "Unknown", 0.9, "data:image/png;base64,QUJD"]
ScalarsWrongSubmission ==
    TopList(<<JInt(2, "2"), JStr(<<"Unknown">>), JFloat(900000, "0.9"), ValidPlot>>)

\* the court-judgments answer: an object of three question keys
CourtObject == TopValue(JDict(3, <<>>))

\* bodies that are not 4-element arrays
OtherBodies ==
    {NoneVal, CourtObject, TopValue(JInt(7, "7")), TopValue(JStr(<<"Unknown">>)),
     TopList(<<>>),
     TopList(<<JInt(1, "1"), TitanicStory, JFloat(485500, "0.4855")>>),
     TopList(<<JInt(1, "1"), TitanicStory, JFloat(485500, "0.4855"), ValidPlot,
               JNull>>)}

\* the body of the endpoint's HTTP 500: {"detail": "Analysis failed: ..."}
ErrorBody == TopValue(JDict(1, <<>>))

\* fetches that fail: no response at all, a status other than 200 (with the
\* endpoint's error body, or with a well-formed answer), an undecodable body
Failures ==
    {Response("neterr", NoneVal), Response("status", ErrorBody),
     Response("status", PerfectSubmission), Response("badjson", NoneVal)}

\* the responses of the multi-run specification
Responses ==
    Failures \cup {Response("ok", b) : b \in OtherBodies} \cup
    {Response("ok", b) : b \in
        {PerfectSubmission, ScalarsWrongSubmission,
         TopList(<<JInt(1, "1"), JStr(<<"Unknown">>), JStr(<<"abc">>), NotADataUri>>),
         TopList(<<JNull, JNull, JNull, JNull>>)}}

(***************************************************************************)
(* The endpoint: DataAnalystAgent (src/main.py)                            *)
(*                                                                         *)
(* A task text is a sequence of phrases, each set off from its neighbours  *)
(* by spaces, so that no keyword straddles two phrases.                    *)
(* agent: [task, routine, status, answer]                                  *)
(*   routine "none" before the dispatch, then "films", "court", "generic"  *)
(*   status  "idle" before the request, "answered" when analyze_task       *)
(*           returned, "failed" when it raised HTTPException(500)          *)
(*   answer  the value analyze_task returned (NoneVal when none)           *)
(***************************************************************************)
\* longest task text, in phrases
MaxTaskToks == 3

Phrases ==
    {"Wikipedia", "wikipedia", "HIGHEST GROSSING", "highest grossing",
     "highest-grossing", "Indian High Court", "indian high court", "films"}

\* task_description.lower(), phrase by phrase
LowerPhrase(t) ==
    CASE t = "Wikipedia" -> "wikipedia"
      [] t = "HIGHEST GROSSING" -> "highest grossing"
      [] t = "Indian High Court" -> "indian high court"
      [] OTHER -> t

\* keyword in task_description.lower()
InLower(keyword, task) == \E i \in 1..Len(task) : LowerPhrase(task[i]) = keyword

\* mutant: the court keyword is tested first
SelectRoutine_CourtFirst(task) ==
    IF InLower("indian high court", task) THEN "court"
    ELSE IF InLower("wikipedia", task) /\ InLower("highest grossing", task)
    THEN "films"
    ELSE "generic"

\* analyze_task: the if / elif / else on the lower-cased text
SelectRoutine(task) ==
    IF InLower("wikipedia", task) /\ InLower("highest grossing", task)
    THEN "films"
    ELSE IF InLower("indian high court", task) THEN "court"
    ELSE "generic"

\* the base64 text of a rendered image: a few dozen bytes, just under and
\* just over the limit
Renders == {"QUJD", "A*99976", "A*99980", "A*100004"}

\* what a call into the libraries (requests, pandas, matplotlib, duckdb) does
Calls == Renders \cup {"raise"}

\* len(image_base64) > 100000
render_limit == 100000

\* an exception leaving a routine
Raised == [exc |-> TRUE, val |-> NoneVal]

Returned(v) == [exc |-> FALSE, val |-> v]

\* f"data:image/png;base64,{image_base64}"
PngUri(b64) == JStr(<<"data:image/", "png;", "base64,", b64>>)

\* f"data:image/webp;base64,{image_base64}"
WebpUri(b64) == JStr(<<"data:image/", "webp;", "base64,", b64>>)

\* create_default_plot: one render, no handler
create_default_plot(e) ==
    IF e.fallback = "raise" THEN Raised ELSE Returned(WebpUri(e.fallback))

\* the except branch of create_rank_peak_scatterplot: one more render, returned as it is
DefaultScatterplot(e) ==
    IF e.fallback = "raise" THEN Raised ELSE Returned(PngUri(e.fallback))

\* create_rank_peak_scatterplot: the first render is replaced by a second,
\* smaller one when its base64 text is longer than the limit
create_rank_peak_scatterplot(e) ==
    IF e.render1 = "raise" THEN DefaultScatterplot(e)
    ELSE IF TokBytes(e.render1) > render_limit
    THEN IF e.render2 = "raise" THEN DefaultScatterplot(e)
         ELSE Returned(PngUri(e.render2))
    ELSE Returned(PngUri(e.render1))

\* analyze_wikipedia_films: scrape, then four appends
analyze_wikipedia_films(e) ==
    IF e.data = "raise" THEN Raised
    ELSE LET plot == create_rank_peak_scatterplot(e)
         IN  IF plot.exc THEN Raised
             ELSE Returned(TopList(<<JInt(1, "1"), e.film, e.correlation, plot.val>>))

CourtQ1 == "Which high court disposed the most cases from 2019 - 2022?"
CourtQ2 == "What's the regression slope of the date_of_registration - decision_date by year in the court=33_10?"
CourtQ3 == "Plot the year and # of days of delay from the above question as a scatterplot with a regression line. Encode as a base64 data URI under 100,000 characters"

\* a dict with the given keys, in insertion order
Dict(keys) == TopValue(JDict(Len(keys), keys))

\* the dict literal returned by the outer handler of analyze_court_judgments
DefaultCourtAnswers == Dict(<<CourtQ1, CourtQ2, CourtQ3>>)

\* analyze_court_judgments: each question stores its key, computed or default;
\* when the plot and its default both fail, or the database does, the outer
\* handler answers with defaults and calls create_default_plot once more
analyze_court_judgments(e) ==
    IF e.data = "raise" \/ (e.render1 = "raise" /\ e.render2 = "raise")
    THEN IF create_default_plot(e).exc THEN Raised ELSE Returned(DefaultCourtAnswers)
    ELSE Returned(Dict(<<CourtQ1>> \o <<CourtQ2>> \o <<CourtQ3>>))

\* generic_analysis: ["Analysis completed", "Generic result", 0.5, default plot]
generic_analysis(e) ==
    LET plot == create_default_plot(e)
    IN  IF plot.exc THEN Raised
        ELSE Returned(TopList(<<JStr(<<"Analysis completed">>), JStr(<<"Generic result">>),
                                JFloat(500000, "0.5"), plot.val>>))

\* analyze_task: dispatch, and HTTPException(500) for any exception
analyze_task(task, e) ==
    LET routine == SelectRoutine(task)
        r == CASE routine = "films" -> analyze_wikipedia_films(e)
               [] routine = "court" -> analyze_court_judgments(e)
               [] OTHER -> generic_analysis(e)
    IN  [task |-> task, routine |-> routine,
         status |-> IF r.exc THEN "failed" ELSE "answered",
         answer |-> r.val]

\* what the libraries can do during one request: data is the scrape or the
\* database connection, film and correlation the values computed from the
\* table (or their defaults), render1 and render2 the first and second
\* render of the plot, fallback the render of the default plot
Outcomes ==
    [data : {"ok", "raise"},
     film : {JStr(<<"Titanic">>), JStr(<<"Unknown">>)},
     correlation : {JFloat(485782, "0.485782"), JFloat(900000, "0.9")},
     render1 : Calls, render2 : Calls, fallback : Calls]

\* every task text of at most MaxTaskToks phrases
Tasks == UNION {[1..n -> Phrases] : n \in 0..MaxTaskToks}

\* no request has been made
NoRequest == [task |-> <<>>, routine |-> "none", status |-> "idle", answer |-> NoneVal]

\* element values of every JSON type, for the single-run specification
Elem0 ==
    {JInt(1, "1"), JInt(2, "2"), JFloat(1000000, "1.0"), JBool(TRUE),
     JStr(<<"1">>), JNull, JList(1, <<"1">>), JFloat(1000500, "1.0005"),
     JBool(FALSE)}
Elem1 ==
    {TitanicStory, JStr(<<"TITANIC">>), JStr(<<"Unknown">>), JNull, JInt(7, "7"),
     JList(1, <<"Titanic">>), JDict(0, <<>>)}
Elem2 ==
    {JFloat(485500, "0.4855"), JFloat(485782, "0.485782"),
     JFloat(486782, "0.486782"), JFloat(900000, "0.9"), JStr(<<"0.4858">>),
     JStr(<<"abc">>), JNull, JInt(1, "1"), JBool(FALSE), JList(0, <<>>),
     JDict(0, <<>>), JFloat(484782, "0.484782"), JFloat(484783, "0.484783"),
     JFloat(486781, "0.486781"), JFloat(486783, "0.486783")}
Elem3 ==
    {ValidPlot, NotADataUri,
     JStr(<<"data:image/", "png;", "base64,", "QQ", "=", "=">>),
     JStr(<<"data:image/", "png;", "base64,", "QQ">>),
     JStr(<<"data:image/", "png;", "QUJD">>),
     JStr(<<"base64,", "QUJD">>),
     JStr(<<"data:image/", "png;", "base64,", "A*99976", "QUJD">>),
     JStr(<<"data:image/", "png;", "base64,", "e-acute">>),
     JStr(<<"data:image/", "png;", "base64,", "QUJD", "U+D800">>),
     JStr(<<>>),
     JNull, JInt(7, "7"), JBool(TRUE), JList(0, <<>>), JDict(0, <<>>)}

Submissions ==
    {TopList(<<a, b, c, d>>) : a \in Elem0, b \in Elem1, c \in Elem2, d \in Elem3}

(***************************************************************************)
(* The evaluator and run_evaluation                                        *)
(*   pc: "PENDING" before the fetch, "fetched" after it, "first", "second",*)
(*   "third", "plot" before the content check of that name, "aggregate"    *)
(*   before the final score, "COMPLETE" once run_evaluation has returned,  *)
(*   "crashed" when an exception left run_evaluation                       *)
(***************************************************************************)
\* DataAnalystEvaluator.__init__
NewObject ==
    /\ total_score = 0
    /\ max_score = 20
    /\ runs = 0

Pending ==
    /\ pc = "PENDING"
    /\ result = NoneVal
    /\ report = NoReport
    /\ stdout = <<>>
    /\ checks = NoChecks

Init ==
    /\ served \in Responses
    /\ NewObject
    /\ Pending
    /\ entry_score = 0
    /\ last = NoLast
    /\ agent = NoRequest

InitFresh ==
    /\ served \in Responses \cup {Response("ok", b) : b \in Submissions}
    /\ NewObject
    /\ Pending
    /\ entry_score = 0
    /\ last = NoLast
    /\ agent = NoRequest

\* run_evaluation, line 177: the fetch
Fetch ==
    /\ pc = "PENDING"
    /\ LET f == test_api_response(served)
       IN  /\ result' = f.ret
           /\ stdout' = <<Line("Testing API endpoint", 0), f.line>>
    /\ pc' = "fetched"
    /\ runs' = runs + 1
    /\ entry_score' = total_score
    /\ UNCHANGED <<agent, served, total_score, max_score, report, checks, last>>

\* run_evaluation, lines 178-185
ReturnApiFailed ==
    /\ pc = "fetched"
    /\ result = NoneVal
    /\ report' = ApiFailedReport(max_score)
    /\ pc' = "COMPLETE"
    /\ UNCHANGED <<agent, served, total_score, max_score, result, stdout, checks,
                   entry_score, runs, last>>

\* run_evaluation, lines 196-204: the Structural Gate
Structure ==
    /\ pc = "fetched"
    /\ result # NoneVal
    /\ LET g == evaluate_structure(result)
       IN  /\ stdout' = stdout \o <<Line("Test 1: Structural Validation", 0),
                                    Line(g.msg, g.n)>>
           /\ IF g.passed
              THEN pc' = "first" /\ UNCHANGED report
              ELSE pc' = "COMPLETE" /\ report' = StructureFailedReport(max_score)
    /\ UNCHANGED <<agent, served, total_score, max_score, result, checks, entry_score,
                   runs, last>>

\* mutant: the check assigns its points to self.total_score instead of adding them
Check_Overwrite(name, o, next) ==
    /\ IF o.exc # "none"
       THEN /\ pc' = "crashed"
            /\ UNCHANGED total_score
       ELSE /\ pc' = next
            /\ total_score' = o.pts
    /\ checks' = [checks EXCEPT ![name] =
                    [done |-> TRUE, pts |-> total_score' - total_score,
                     ret |-> o.ret, caught |-> o.caught, crit |-> o.crit]]
    /\ UNCHANGED <<agent, served, max_score, result, report, stdout, entry_score, runs,
                   last>>

\* one content check called from run_evaluation (lines 207-210): the check
\* adds its points to self.total_score; an exception leaving the check
\* leaves run_evaluation too, which has no handler
Check(name, o, next) ==
    /\ IF o.exc # "none"
       THEN /\ pc' = "crashed"
            /\ UNCHANGED total_score
       ELSE /\ pc' = next
            /\ total_score' = total_score + o.pts
    /\ checks' = [checks EXCEPT ![name] =
                    [done |-> TRUE, pts |-> total_score' - total_score,
                     ret |-> o.ret, caught |-> o.caught, crit |-> o.crit]]
    /\ UNCHANGED <<agent, served, max_score, result, report, stdout, entry_score, runs,
                   last>>

FirstAnswer ==
    /\ pc = "first"
    /\ Check("first", evaluate_first_answer(result), "second")

SecondAnswer ==
    /\ pc = "second"
    /\ Check("second", evaluate_second_answer(result), "third")

\* mutant: the plot check is left out of the sequence
ThirdAnswer_SkipsPlot ==
    /\ pc = "third"
    /\ Check("third", evaluate_third_answer(result), "aggregate")

ThirdAnswer ==
    /\ pc = "third"
    /\ Check("third", evaluate_third_answer(result), "plot")

Plot ==
    /\ pc = "plot"
    /\ Check("plot", evaluate_plot(result), "aggregate")

\* run_evaluation, lines 212-235
Finish ==
    /\ pc = "aggregate"
    /\ report' = CompletedReport(total_score, max_score, result)
    /\ stdout' = stdout \o
          <<Line("EVALUATION COMPLETE", total_score),
            Line(Band(Percentage(total_score, max_score)), 0)>>
    /\ pc' = "COMPLETE"
    /\ UNCHANGED <<agent, served, total_score, max_score, result, checks, entry_score,
                   runs, last>>

\* run_evaluation is called again on the same evaluator object
RunAgain ==
    /\ pc = "COMPLETE"
    /\ runs < MaxRuns
    /\ last' = [result |-> result, report |-> report, stdout |-> stdout]
    /\ pc' = "PENDING"
    /\ result' = NoneVal
    /\ report' = NoReport
    /\ stdout' = <<>>
    /\ checks' = NoChecks
    /\ UNCHANGED <<agent, served, total_score, max_score, entry_score, runs>>

\* main(): a new DataAnalystEvaluator is constructed and run
NewEvaluator ==
    /\ pc = "COMPLETE"
    /\ total_score' = 0
    /\ max_score' = 20
    /\ runs' = 0
    /\ last' = [result |-> result, report |-> report, stdout |-> stdout]
    /\ pc' = "PENDING"
    /\ result' = NoneVal
    /\ report' = NoReport
    /\ stdout' = <<>>
    /\ checks' = NoChecks
    /\ entry_score' = 0
    /\ UNCHANGED <<agent, served>>

\* between two runs the endpoint may answer differently
Deploy ==
    /\ pc = "PENDING"
    /\ last # NoLast
    /\ \E r \in Responses : r # served /\ served' = r
    /\ UNCHANGED <<agent, total_score, max_score, pc, result, report, stdout,
                   checks, entry_score, runs, last>>

RunStep ==
    \/ Fetch
    \/ ReturnApiFailed
    \/ Structure
    \/ FirstAnswer
    \/ SecondAnswer
    \/ ThirdAnswer
    \/ Plot
    \/ Finish

Next == RunStep \/ RunAgain \/ NewEvaluator \/ Deploy

\* any number of runs, on the same evaluator or on new ones
Spec == Init /\ [][Next]_vars

\* one run of a new evaluator on a submission of any element types
NextFresh == RunStep

SpecFresh == InitFresh /\ [][NextFresh]_vars

\* POST /api/ (analyze_data): the task is dispatched and answered; the answer
\* is served with status 200, an HTTPException with status 500
AnalyzeData ==
    /\ pc = "PENDING"
    /\ agent.status = "idle"
    /\ \E e \in Outcomes :
          /\ agent' = analyze_task(agent.task, e)
          /\ served' = IF agent'.status = "answered"
                       THEN Response("ok", agent'.answer)
                       ELSE Response("status", ErrorBody)
    /\ UNCHANGED <<total_score, max_score, pc, result, report, stdout, checks,
                   entry_score, runs, last>>

\* the endpoint is not reachable until it has started
InitAgent ==
    /\ served = Response("neterr", NoneVal)
    /\ NewObject
    /\ Pending
    /\ entry_score = 0
    /\ last = NoLast
    /\ agent \in {[NoRequest EXCEPT !.task = t] : t \in Tasks}

NextAgent == AnalyzeData \/ RunStep

\* one request to the endpoint, evaluated by one run of a new evaluator
SpecAgent == InitAgent /\ [][NextAgent]_vars

(***************************************************************************)
(* Properties                                                              *)
(***************************************************************************)
IsFourArray(r) == r.type = "list" /\ Len(r.elems) = 4

\* the submission fetched by the run in progress came with status 200
Fetched200 == pc # "PENDING" /\ served.kind = "ok"

\* the submission with element k replaced by v
With(r, k, v) == TopList([r.elems EXCEPT ![k] = v])

\* a submission on which every content check fails
AllNull == TopList(<<JNull, JNull, JNull, JNull>>)

\* C1: whenever the fetched value is not an array of exactly 4 elements (an
\* object, an array of another length, a scalar, null), the Structural Gate
\* rejects it, no content check is reached, and the run ends with a report of
\* score 0 and success false, whatever total_score the evaluator holds.
C1_NotFourElementsScoresZero ==
    (pc \notin {"PENDING", "fetched"} /\ ~IsFourArray(result)) =>
        /\ ~evaluate_structure(result).passed
        /\ pc = "COMPLETE"
        /\ report.score = 0
        /\ report.success = FALSE
        /\ checks = NoChecks

\* the court-judgments object is rejected by an evaluator that already holds points
C1_Witness ==
    /\ pc = "COMPLETE"
    /\ result = CourtObject
    /\ total_score > 0
    /\ report.score = 0

\* C2: after a run of a new evaluator on a 4-element submission the score is
\* the sum of what the four checks added, each of Check A, B, C adds 4 when
\* it passes and 0 otherwise, each check adds what it adds for the same
\* element when all other checks fail and when all other checks pass, and
\* three failed scalar checks with a fully valid plot give 8.
C2_ScoreIsSumOfIndependentChecks ==
    (pc = "COMPLETE" /\ IsFourArray(result) /\ entry_score = 0) =>
        /\ report.score
             = checks.first.pts + checks.second.pts + checks.third.pts
               + checks.plot.pts
        /\ \A k \in {"first", "second", "third"} :
              checks[k].pts = IF checks[k].ret THEN 4 ELSE 0
        /\ \A base \in {AllNull, PerfectSubmission} :
              /\ checks.first.pts
                   = evaluate_first_answer(With(base, 1, result.elems[1])).pts
              /\ checks.second.pts
                   = evaluate_second_answer(With(base, 2, result.elems[2])).pts
              /\ checks.third.pts
                   = evaluate_third_answer(With(base, 3, result.elems[3])).pts
              /\ checks.plot.pts
                   = evaluate_plot(With(base, 4, result.elems[4])).pts
        /\ (~checks.first.ret /\ ~checks.second.ret /\ ~checks.third.ret
            /\ checks.plot.ret) => report.score = 8

\* [2, "Unknown", 0.9, valid plot] scores 8
C2_Witness ==
    /\ pc = "COMPLETE"
    /\ result = ScalarsWrongSubmission
    /\ report.score = 8
    /\ checks.plot.pts = 8

PlotRanOnNotADataUri ==
    /\ IsFourArray(result)
    /\ result.elems[4] = NotADataUri
    /\ checks.plot.done

\* C4 as stated: on "not-a-data-uri" the plot check awards 0 of 8 points, all
\* four sub-criteria fail.
C4_NotADataUriAwardsNothing ==
    PlotRanOnNotADataUri =>
        /\ checks.plot.pts = 0
        /\ checks.plot.crit = NoCrit

\* C4 amended: on "not-a-data-uri" the plot check awards 2 of 8 points: the
\* size sub-criterion holds (14 bytes < 100,000), the other three fail, and
\* the check returns False.
C4_NotADataUriAwardsSizeOnly ==
    PlotRanOnNotADataUri =>
        /\ checks.plot.pts = 2
        /\ checks.plot.crit = [NoCrit EXCEPT !.size_ok = TRUE]
        /\ checks.plot.ret = FALSE
        /\ checks.plot.caught = "none"

C4_Witness ==
    /\ PlotRanOnNotADataUri
    /\ pc = "COMPLETE"
    /\ report.score = checks.first.pts + checks.second.pts + checks.third.pts + 2

\* C5 as stated: evaluating the same fetched submission again gives the same
\* report as the run before.
C5_SameSubmissionSameReport ==
    (pc = "COMPLETE" /\ last # NoLast /\ last.result = result) =>
        report = last.report

\* C6 as stated: every report has 0 <= score <= 20, max_score 20 and
\* percentage = score/20*100.
C6_ScoreWithinMax ==
    pc = "COMPLETE" =>
        /\ report.score \in 0..20
        /\ report.max_score = 20
        /\ report.percentage = [whole |-> report.score * 5, ulps |-> 0]

\* the gate or a content check has run in this run
GateOrCheckRan ==
    \/ \E i \in 1..Len(stdout) : stdout[i].msg = "Test 1: Structural Validation"
    \/ checks # NoChecks

\* C7: when the fetch fails (no response, a status other than 200, a body
\* that is not JSON) the run goes straight from the fetch to a report of
\* success false, score 0, percentage 0; neither the gate nor a content
\* check runs and total_score keeps the value it had on entry.
C7_FetchFailureEndsRun ==
    (pc # "PENDING" /\ served.kind # "ok") =>
        /\ pc \in {"fetched", "COMPLETE"}
        /\ result = NoneVal
        /\ ~GateOrCheckRan
        /\ total_score = entry_score
        /\ pc = "COMPLETE" =>
              /\ report.success = FALSE
              /\ report.score = 0
              /\ report.percentage = ZeroPercent

\* a status other than 200 with a well-formed answer, on an evaluator holding points
C7_Witness ==
    /\ pc = "COMPLETE"
    /\ served = Response("status", PerfectSubmission)
    /\ total_score > 0
    /\ report.score = 0

\* a content check whose handler caught an exception
Caught(k) == checks[k].done /\ checks[k].caught # "none"

\* the plot check tried to decode the text after the marker and failed
DecodeFailed ==
    /\ checks.plot.done
    /\ checks.plot.caught = "none"
    /\ checks.plot.crit.has_base64
    /\ ~checks.plot.crit.can_decode

\* what each check adds for its element when every other check fails
AloneAwards ==
    /\ checks.first.pts = evaluate_first_answer(With(AllNull, 1, result.elems[1])).pts
    /\ checks.second.pts = evaluate_second_answer(With(AllNull, 2, result.elems[2])).pts
    /\ checks.third.pts = evaluate_third_answer(With(AllNull, 3, result.elems[3])).pts
    /\ checks.plot.pts = evaluate_plot(With(AllNull, 4, result.elems[4])).pts

\* C8 as stated: a failure inside a content check, a base64 decode failure
\* included, makes that check contribute 0 points.
C8_FailedCheckAwardsNothing ==
    (pc = "COMPLETE" /\ Fetched200 /\ IsFourArray(result)) =>
        /\ \A k \in {"first", "second", "third", "plot"} :
              Caught(k) => checks[k].pts = 0
        /\ DecodeFailed => checks.plot.pts = 0

\* C8 amended: on every 4-element submission no exception leaves
\* run_evaluation, all four content checks run and a report is returned; a
\* check whose handler caught an exception (coercion error, plot element that
\* is not a string or cannot be encoded) adds 0, a base64 decode failure
\* fails only the decode sub-criterion, the plot check still adding 2 for
\* each other sub-criterion that holds; every check adds what it adds for its
\* element when all other checks fail.
C8_FailureStaysInsideItsCheck ==
    (Fetched200 /\ IsFourArray(result)) =>
        /\ pc # "crashed"
        /\ pc = "COMPLETE" =>
              /\ report.success
              /\ \A k \in {"first", "second", "third", "plot"} :
                    /\ checks[k].done
                    /\ Caught(k) => checks[k].pts = 0
              /\ DecodeFailed =>
                    checks.plot.pts
                      = 2 * ((IF checks.plot.crit.is_data_uri THEN 1 ELSE 0)
                             + 1
                             + (IF checks.plot.crit.size_ok THEN 1 ELSE 0))
              /\ AloneAwards

\* Check C and the plot check both catch an exception, Check A and B still award
C8_Witness ==
    /\ pc = "COMPLETE"
    /\ Caught("third")
    /\ Caught("plot")
    /\ checks.first.pts = 4
    /\ checks.second.pts = 4
    /\ report.score = 8

\* a decode failure that leaves points to the plot check
C8_DecodeWitness ==
    /\ pc = "COMPLETE"
    /\ DecodeFailed
    /\ checks.plot.pts = 6

\* C9 as stated: a status-200 body that is not a 4-element array is reported
\* with a details string other than the one of a failed fetch.
C9_StructuralMismatchDistinctFromFetchFailure ==
    (pc = "COMPLETE" /\ Fetched200 /\ ~IsFourArray(served.body)) =>
        /\ report.success = FALSE
        /\ report.details # ApiFailedReport(max_score).details

\* the diagnostic line printed for the cause of a failed run
CauseLine(out) == IF Len(out) >= 4 THEN out[4] ELSE out[2]

\* a failed run whose fetch decoded a body with status 200: the body null
NullBodyRun(out) ==
    Len(out) = 2 /\ out[2].msg = "API response received successfully"

\* C10 as stated: the details of a failed report identify the cause: two
\* failed runs whose causes differ (shown by the diagnostic lines they
\* print; runs on the body null left aside) have different details.
C10_DetailsIdentifyCause ==
    (/\ pc = "COMPLETE" /\ ~report.success
     /\ last.report.details # "" /\ ~last.report.success
     /\ ~NullBodyRun(stdout) /\ ~NullBodyRun(last.stdout)
     /\ CauseLine(stdout) # CauseLine(last.stdout))
    => report.details # last.report.details

\* C10 amended: the details of a failed report identify only the step that
\* ended the run: "API request failed" when the fetch returned None (no
\* response, a status other than 200, a body that is not JSON, or the JSON
\* body null), "Failed structural validation - not a 4-element array" when
\* the gate rejected the value; which cause it was (the status, the
\* exception, not an array, an array of N elements) is only printed.
C10_DetailsIdentifyStep ==
    (pc = "COMPLETE" /\ ~report.success) =>
        \/ /\ result = NoneVal
           /\ report.details = "API request failed"
           /\ Len(stdout) = 2
           /\ stdout[2].msg
                = CASE served.kind = "neterr" -> "Request failed: ConnectionError"
                    [] served.kind = "badjson" -> "Request failed: JSONDecodeError"
                    [] served.kind = "status" -> "API error: status"
                    [] OTHER -> "API response received successfully"
        \/ /\ result # NoneVal
           /\ ~IsFourArray(result)
           /\ report.details = "Failed structural validation - not a 4-element array"
           /\ Len(stdout) = 4
           /\ stdout[4]
                = IF result.type # "list"
                  THEN Line("Response is not an array", 0)
                  ELSE Line("Array has N elements, expected 4", Len(result.elems))

\* two gate failures of different causes, one after the other, with the same details
C10_Witness ==
    /\ pc = "COMPLETE"
    /\ ~report.success
    /\ ~last.report.success
    /\ stdout[Len(stdout)].msg = "Array has N elements, expected 4"
    /\ last.stdout # <<>>
    /\ last.stdout[Len(last.stdout)].msg = "Response is not an array"
    /\ report.details = last.report.details

\* Check A has run on a 4-element submission
FirstRan == IsFourArray(result) /\ checks.first.done

\* C11 as stated: Check A awards its 4 points exactly when element 0 is the
\* integer 1; true, 1.0, "1" and numbers near 1 award 0.
C11_OnlyIntegerOneAwards ==
    FirstRan =>
        /\ checks.first.pts \in {0, 4}
        /\ checks.first.pts = 4
             <=> (result.elems[1].type = "int" /\ result.elems[1].num = 1)

\* C11 amended: Check A awards its 4 points exactly when element 0 compares
\* equal to 1 in Python: the integer 1, the float 1.0 and the boolean true;
\* every other value ("1", 2, 1.0005, false, null, arrays, objects) awards 0,
\* and no exception is raised.
C11_PythonEqualToOneAwards ==
    FirstRan =>
        /\ checks.first.pts \in {0, 4}
        /\ checks.first.caught = "none"
        /\ checks.first.pts = 4
             <=> \/ result.elems[1].type = "int" /\ result.elems[1].num = 1
                 \/ result.elems[1].type = "float" /\ result.elems[1].num = 1000000
                 \/ result.elems[1].type = "bool" /\ result.elems[1].num = 1

\* the boolean true earns the 4 points of Check A
C11_Witness ==
    /\ FirstRan
    /\ result.elems[1] = JBool(TRUE)
    /\ checks.first.pts = 4
    /\ total_score = 4

\* Check C has run on a 4-element submission
ThirdRan == IsFourArray(result) /\ checks.third.done

\* C12 as stated: Check C awards its 4 points exactly when element 2 coerces
\* to a number at distance at most 0.001 from 0.485782, the distance 0.001
\* included; an element that does not coerce awards 0 and nothing is raised.
C12_WithinDecimalTolerance ==
    ThirdRan =>
        LET f == PyFloat(result.elems[3])
        IN  /\ pc # "crashed"
            /\ checks.third.pts \in {0, 4}
            /\ f.exc # "none" => checks.third.pts = 0
            /\ checks.third.pts = 4
                 <=> (f.exc = "none" /\ f.val >= 484782 /\ f.val <= 486782)

(***************************************************************************)
(* The plot check on every short text                                      *)
(***************************************************************************)
\* longest plot text, in tokens
MaxPlotToks == 5

PlotAlphabet ==
    {"data:image/", "base64,", "A*99980", "QQ", "!", "e-acute", "U+D800"}

\* every text of at most MaxPlotToks tokens
PlotStrings == UNION {[1..n -> PlotAlphabet] : n \in 0..MaxPlotToks}

\* [1, "The Titanic Story", 0.4855, s] for every text s
PlotSubmissions ==
    {TopList(<<JInt(1, "1"), TitanicStory, JFloat(485500, "0.4855"), JStr(s)>>) :
        s \in PlotStrings}

InitPlot ==
    /\ served \in Failures \cup {Response("ok", b) : b \in PlotSubmissions}
    /\ NewObject
    /\ Pending
    /\ entry_score = 0
    /\ last = NoLast
    /\ agent = NoRequest

SpecPlot == InitPlot /\ [][NextFresh]_vars

\* the plot check has run on a 4-element submission whose element 3 is a string
PlotRanOnString ==
    /\ IsFourArray(result)
    /\ checks.plot.done
    /\ result.elems[4].type = "str"

\* the text of element 3
PlotToks == result.elems[4].toks

\* C13: the size sub-criterion holds exactly when element 3 has a UTF-8
\* encoding of fewer than 100,000 bytes (99,999 passes, 100,000 fails),
\* whatever the other three sub-criteria are; when it holds it is worth
\* 2 points.
C13_SizeCriterionStrictlyBelowLimit ==
    PlotRanOnString =>
        /\ checks.plot.crit.size_ok
             <=> (CanEncode(PlotToks) /\ ByteLen(PlotToks) <= 99999)
        /\ ByteLen(PlotToks) >= 100000 => ~checks.plot.crit.size_ok
        /\ checks.plot.crit.size_ok => checks.plot.pts >= 2
        /\ ~checks.plot.crit.size_ok => checks.plot.pts <= 6

\* a text of exactly 100,000 bytes fails the size sub-criterion alone
C13_Witness ==
    /\ PlotRanOnString
    /\ ByteLen(PlotToks) = 100000
    /\ ~checks.plot.crit.size_ok
    /\ checks.plot.crit.is_data_uri
    /\ checks.plot.crit.has_base64
    /\ checks.plot.crit.can_decode
    /\ checks.plot.pts = 6

\* a text of exactly 99,999 bytes passes the size sub-criterion
C13_WitnessBelow ==
    /\ PlotRanOnString
    /\ ByteLen(PlotToks) = 99999
    /\ checks.plot.crit.size_ok
    /\ checks.plot.pts = 8

\* the four sub-criteria as the text of element 3 decides them
StatedCriteria ==
    [is_data_uri |-> StartsWithDataImage(PlotToks),
     has_base64 |-> HasMarker(PlotToks),
     size_ok |-> CanEncode(PlotToks) /\ ByteLen(PlotToks) < 100000,
     can_decode |-> CanDecode(PlotToks)]

\* number of sub-criteria of c that hold
HowMany(c) ==
    Cardinality({k \in {"is_data_uri", "has_base64", "size_ok", "can_decode"} : c[k]})

\* C14 as stated: for every string element 3 the plot check adds 2 points per
\* sub-criterion that holds, and passes exactly when all four hold.
C14_TwoPointsPerCriterionForEveryString ==
    PlotRanOnString =>
        /\ checks.plot.pts = 2 * HowMany(StatedCriteria)
        /\ checks.plot.ret <=> HowMany(StatedCriteria) = 4

\* C14 amended: for every string element 3 that has a UTF-8 encoding the plot
\* check adds 2 points per sub-criterion that holds (0, 2, 4, 6 or 8) and
\* passes exactly when all four hold; for a string holding a lone surrogate
\* the encoding raises inside the check, which adds 0 and does not pass,
\* whatever its prefix and marker are.
C14_TwoPointsPerCriterionWhenEncodable ==
    PlotRanOnString =>
        /\ checks.plot.pts \in {0, 2, 4, 6, 8}
        /\ total_score = checks.first.pts + checks.second.pts
                           + checks.third.pts + checks.plot.pts
        /\ CanEncode(PlotToks) =>
             /\ checks.plot.caught = "none"
             /\ checks.plot.pts = 2 * HowMany(StatedCriteria)
             /\ checks.plot.pts = 2 * HowMany(checks.plot.crit)
             /\ checks.plot.ret <=> HowMany(StatedCriteria) = 4
        /\ ~CanEncode(PlotToks) =>
             /\ checks.plot.caught = "UnicodeEncodeError"
             /\ checks.plot.pts = 0
             /\ ~checks.plot.ret

\* a data URI with marker whose text holds a lone surrogate earns nothing
C14_Witness ==
    /\ PlotRanOnString
    /\ StartsWithDataImage(PlotToks)
    /\ HasMarker(PlotToks)
    /\ ~CanEncode(PlotToks)
    /\ checks.plot.pts = 0

\* an encodable text with three of the four sub-criteria earns 6
C14_WitnessPartial ==
    /\ PlotRanOnString
    /\ CanEncode(PlotToks)
    /\ HowMany(checks.plot.crit) = 3
    /\ checks.plot.pts = 6
    /\ ~checks.plot.ret

\* C19: the decode sub-criterion holds only when the marker sub-criterion
\* holds, so no plot check ends with decode true and marker false, and a plot
\* contribution that includes the decode points is at least 4.
C19_DecodeImpliesMarker ==
    PlotRanOnString =>
        /\ checks.plot.crit.can_decode => checks.plot.crit.has_base64
        /\ checks.plot.crit.can_decode => checks.plot.pts >= 4
        /\ ~HasMarker(PlotToks) => ~checks.plot.crit.can_decode

\* marker and decode are the only sub-criteria that hold: exactly 4 points
C19_Witness ==
    /\ PlotRanOnString
    /\ checks.plot.crit.can_decode
    /\ checks.plot.crit.has_base64
    /\ ~checks.plot.crit.is_data_uri
    /\ ~checks.plot.crit.size_ok
    /\ checks.plot.pts = 4

\* the successive positions of one run, and the start of the next
StepOrder ==
    {<<"PENDING", "fetched">>, <<"fetched", "first">>, <<"fetched", "COMPLETE">>,
     <<"first", "second">>, <<"second", "third">>, <<"third", "plot">>,
     <<"plot", "aggregate">>, <<"aggregate", "COMPLETE">>,
     <<"COMPLETE", "PENDING">>}

\* the content checks that have run
ChecksDone == {k \in {"first", "second", "third", "plot"} : checks[k].done}

\* the content checks that have run when the run is at position p
DoneAt(p) ==
    CASE p = "second" -> {"first"}
      [] p = "third" -> {"first", "second"}
      [] p = "plot" -> {"first", "second", "third"}
      [] p = "aggregate" -> {"first", "second", "third", "plot"}
      [] OTHER -> {}

\* a run is between its fetch and its report
Running == pc \in {"PENDING", "fetched", "first", "second", "third", "plot", "aggregate"}

C17_InOrder ==
    /\ pc # "crashed"
    /\ Running => ENABLED RunStep
    /\ Running => report = NoReport
    /\ pc \in {"PENDING", "fetched"} => ChecksDone = {}
    /\ pc = "fetched" => total_score = entry_score
    /\ pc \in {"first", "second", "third", "plot", "aggregate"} =>
          /\ IsFourArray(result)
          /\ ChecksDone = DoneAt(pc)
    /\ pc = "COMPLETE" =>
          /\ report # NoReport
          /\ IF IsFourArray(result)
             THEN ChecksDone = {"first", "second", "third", "plot"} /\ report.success
             ELSE ChecksDone = {} /\ total_score = entry_score /\ ~report.success

C17_OneStep ==
    /\ pc' # pc => <<pc, pc'>> \in StepOrder
    /\ (pc = "fetched" /\ pc' # pc) => (pc' = "first" <=> IsFourArray(result))
    /\ (total_score' # total_score /\ pc # "COMPLETE") =>
          pc \in {"first", "second", "third", "plot"}
    /\ \A k \in {"first", "second", "third", "plot"} :
          checks'[k] # checks[k] =>
             \/ pc = k /\ ~checks[k].done /\ checks'[k].done
             \/ pc = "COMPLETE" /\ pc' = "PENDING"
    /\ (pc = "PENDING" /\ pc' = "fetched") => runs' = runs + 1
    /\ (pc # "PENDING" /\ pc' # "PENDING") => runs' = runs /\ served' = served

\* C17: in every run the steps occur in the order fetch, Structural Gate,
\* Check A, Check B, Check C, plot check; no content check runs and no point
\* is added before the gate has passed; once it has passed each of the four
\* content checks runs exactly once, whatever the others did, before the
\* report; every run can always take its next step until it is COMPLETE with
\* a report, and the fetch is made once per run.
C17_FixedOrderOfSteps == [](C17_InOrder) /\ [][C17_OneStep]_vars

\* a second run on the same evaluator completes with all four checks run
C17_Witness ==
    /\ pc = "COMPLETE"
    /\ runs = 2
    /\ report.success
    /\ ChecksDone = {"first", "second", "third", "plot"}
    /\ checks.plot.pts > 0

\* the band line printed by a completed run
BandLine == stdout[Len(stdout)].msg

\* a run that passed the gate has returned its report
Completed == pc = "COMPLETE" /\ report.success

\* C18: on a new evaluator the band is EXCELLENT for the scores 18 and 20
\* (percentage >= 90), GOOD for 14 and 16 (>= 70), FAIR for 10 and 12
\* (>= 50) and NEEDS WORK below; the reported score is total_score, the sum
\* of the four checks, and the percentage is score/20*100.
C18_BandFromPercentage ==
    Completed =>
        /\ report.score = total_score
        /\ report.score = checks.first.pts + checks.second.pts
                            + checks.third.pts + checks.plot.pts
        /\ report.score \in {0, 2, 4, 6, 8, 10, 12, 14, 16, 18, 20}
        /\ report.percentage = [whole |-> report.score * 5, ulps |-> 0]
        /\ BandLine = "EXCELLENT" <=> report.score \in {18, 20}
        /\ BandLine = "GOOD" <=> report.score \in {14, 16}
        /\ BandLine = "FAIR" <=> report.score \in {10, 12}
        /\ BandLine = "NEEDS WORK" <=> report.score <= 8

\* a score of exactly 14 of 20 (70%) is GOOD
C18_Witness ==
    /\ Completed
    /\ report.score = 14
    /\ BandLine = "GOOD"

\* the task text names the keyword, in any letter case
Names(words) == \E i \in 1..Len(agent.task) : agent.task[i] \in words

\* the routine the task text calls for
CalledFor ==
    IF Names({"Wikipedia", "wikipedia"})
       /\ Names({"HIGHEST GROSSING", "highest grossing"})
    THEN "films"
    ELSE IF Names({"Indian High Court", "indian high court"}) THEN "court"
    ELSE "generic"

\* C15: analyze_task selects one routine by keyword: films when the
\* lower-cased text contains both "wikipedia" and "highest grossing" (also
\* when it contains "indian high court"), else court when it contains
\* "indian high court", else the generic stub; whenever it returns an
\* answer, on the normal and on every fallback path, the answer is a
\* 4-element array for films and generic and an object with exactly the
\* three question keys for court; otherwise the request fails with
\* status 500.
C15_RoutineByKeywordFixedShape ==
    agent.status # "idle" =>
        /\ agent.routine = CalledFor
        /\ agent.status \in {"answered", "failed"}
        /\ (agent.status = "answered" /\ agent.routine \in {"films", "generic"}) =>
              /\ served = Response("ok", agent.answer)
              /\ IsFourArray(agent.answer)
        /\ (agent.status = "answered" /\ agent.routine = "court") =>
              /\ served = Response("ok", agent.answer)
              /\ agent.answer.type = "dict"
              /\ agent.answer.num = 3
              /\ agent.answer.toks = <<CourtQ1, CourtQ2, CourtQ3>>
        /\ agent.status = "failed" =>
              /\ served = Response("status", ErrorBody)
              /\ agent.answer = NoneVal

\* a task naming all three keywords is answered by the films routine
C15_Witness ==
    /\ agent.status = "answered"
    /\ Names({"Wikipedia"})
    /\ Names({"highest grossing"})
    /\ Names({"Indian High Court"})
    /\ agent.routine = "films"
    /\ IsFourArray(agent.answer)
    /\ pc = "COMPLETE"

\* a court task answered with the three keys
C15_WitnessCourt ==
    /\ agent.status = "answered"
    /\ agent.routine = "court"
    /\ agent.answer.num = 3
    /\ pc = "COMPLETE"
    /\ report.details = "Failed structural validation - not a 4-element array"

\* C16 as stated: whatever the sizes of the rendered images, the data URI the
\* films routine answers with is under 100,000 bytes and passes the size
\* sub-criterion of the plot check.
C16_ScatterplotUnderLimit ==
    (agent.status = "answered" /\ agent.routine = "films") =>
        /\ ByteLen(agent.answer.elems[4].toks) < 100000
        /\ checks.plot.done => checks.plot.crit.size_ok

====
